---- MODULE Spec2Model ----
(***************************************************************************)
(* Parametric yantra backend: the two instrument generators                *)
(* (services/samrat_yantra.py, services/rama_yantra.py), the two accuracy  *)
(* validators (services/validation.py, app/api/generate.py) and the        *)
(* generation endpoint with its request model (app/models.py).             *)
(*                                                                         *)
(* Numbers.  Python floats are modelled as exact fixed-point integers:     *)
(*   lengths in millimetres      (LenScale units per metre),               *)
(*   angles in hundredths of a degree (AngleScale units per degree),       *)
(*   tangents in thousandths     (TanScale units per 1.0).                 *)
(* Ratios such as 0.15 or 2.5 are applied as exact integer fractions; the  *)
(* scales drawn below are multiples of 100 mm, on which every product of   *)
(* the source is an integer.  IEEE rounding of results is below this       *)
(* resolution and is not modelled.  What IS modelled of IEEE arithmetic is *)
(* whatever changes control flow: float('inf'), the finite value of        *)
(* tan(radians(90)), cos never being exactly 0.0, and the underflow of     *)
(* math.radians on a positive subnormal altitude (0 < a < 3e-322), which   *)
(* yields 0.0 and then tan = 0.0.  Such an altitude has grid value 0 and   *)
(* is told apart from 0.0 by the flag "subnormal".                         *)
(*                                                                         *)
(* Objects.  generate() builds a new geometry object on every call and     *)
(* rebinds self.geometry to it; "held" keeps the objects a caller still    *)
(* holds, each with the value it was returned with and the value it has    *)
(* now, so that a write through an old reference would be visible.         *)
(*                                                                         *)
(* Specifications.  Spec: one generator and its calls.  SpecFrame: the     *)
(* same calls with a caller that keeps earlier geometry objects.           *)
(* SpecValidator: the two accuracy validators over a generator and a solar *)
(* oracle that returns or raises.  SpecEndpoint: the generation endpoint,  *)
(* its export tasks and the download route.                                *)
(***************************************************************************)
EXTENDS Integers, Sequences, FiniteSets, Bags, TLC

VARIABLES
    generator,   \* the generator object: kind, latitude, longitude, scale, geometry
    held,        \* the geometry objects generate returned that the caller still holds
    last,        \* the last method call on the generator and how it ended
    validation,  \* the last validator call and what it returned
    db,          \* the database: committed Project and Export records
    tasks,       \* background tasks scheduled and not yet run, per request
    http         \* the last HTTP response, with the steps its handler took

server == <<db, tasks, http>>
vars == <<generator, held, last, validation, db, tasks, http>>

LenScale == 10^3
AngleScale == 10^2
TanScale == 10^3
\* latitudes and longitudes are kept in units of 1e-7 degree, one digit below
\* the six decimals the request model rounds them to
CoordScale == 10^7

Deg(d) == d * AngleScale
Coord(d) == d * CoordScale
Abs(x) == IF x < 0 THEN -x ELSE x
Min(a, b) == IF a <= b THEN a ELSE b
\* the difference taken where the larger value is meant
MaxAsDifference(a, b) == a - b

Max(a, b) == IF a >= b THEN a ELSE b
\* ceiling of p / d for d > 0 (\div is the floor)
CeilDiv(p, d) == -((-p) \div d)

(***************************************************************************)
(* math.tan(math.radians(a)) for a whole number of degrees 1..89, in       *)
(* thousandths.  tan(radians(90)) is the finite double 1.633e16; it is     *)
(* kept as TanHuge, larger than every numerator the model divides by it.   *)
(***************************************************************************)
TanTable ==
    << 17, 35, 52, 70, 87, 105, 123, 141, 158, 176, 194, 213, 231, 249, 268,
       287, 306, 325, 344, 364, 384, 404, 424, 445, 466, 488, 510, 532, 554,
       577, 601, 625, 649, 675, 700, 727, 754, 781, 810, 839, 869, 900, 933,
       966, 1000, 1036, 1072, 1111, 1150, 1192, 1235, 1280, 1327, 1376, 1428,
       1483, 1540, 1600, 1664, 1732, 1804, 1881, 1963, 2050, 2145, 2246,
       2356, 2475, 2605, 2747, 2904, 3078, 3271, 3487, 3732, 4011, 4331,
       4705, 5145, 5671, 6314, 7115, 8144, 9514, 11430, 14301, 19081, 28636,
       57290 >>

TanHuge == 2 * 10^9

\* tan(radians(a)) for 0 <= a <= 90 degrees; a is in angle units, whole degrees.
\* Grid value 0 covers 0.0 and the positive subnormals: radians gives 0.0, tan 0.0.
TanOfDegrees(a) ==
    IF a = 0 THEN 0
    ELSE IF a = Deg(90) THEN TanHuge
    ELSE TanTable[a \div AngleScale]

\* math.cos of a double is never exactly 0.0 (pi/2 is not a double):
\* cos(radians(90)) = 6.1e-17, so neither denominator of the hour-angle
\* formula is zero.
CosIsZero(a) == FALSE

\* sin of 0..90 whole degrees in ten-thousandths; SinTable[k + 1] is sin(k)
SinScale == 10^4
SinTable ==
    <<
      0, 175, 349, 523, 698, 872, 1045, 1219, 1392, 1564,
      1736, 1908, 2079, 2250, 2419, 2588, 2756, 2924, 3090, 3256,
      3420, 3584, 3746, 3907, 4067, 4226, 4384, 4540, 4695, 4848,
      5000, 5150, 5299, 5446, 5592, 5736, 5878, 6018, 6157, 6293,
      6428, 6561, 6691, 6820, 6947, 7071, 7193, 7314, 7431, 7547,
      7660, 7771, 7880, 7986, 8090, 8192, 8290, 8387, 8480, 8572,
      8660, 8746, 8829, 8910, 8988, 9063, 9135, 9205, 9272, 9336,
      9397, 9455, 9511, 9563, 9613, 9659, 9703, 9744, 9781, 9816,
      9848, 9877, 9903, 9925, 9945, 9962, 9976, 9986, 9994, 9998,
      10000 >>

\* sin of an angle in [0, 90] degrees given in centidegrees, linear between
\* whole degrees
SinFirstQuadrant(a) ==
    LET k == a \div AngleScale
        f == a % AngleScale
    IN  IF f = 0 THEN SinTable[k + 1]
        ELSE SinTable[k + 1]
             + ((SinTable[k + 2] - SinTable[k + 1]) * f) \div AngleScale

\* math.sin(math.radians(a)), a in centidegrees
SinOfDegrees(a) ==
    LET r == a % Deg(360)
    IN  IF r <= Deg(90) THEN SinFirstQuadrant(r)
        ELSE IF r <= Deg(180) THEN SinFirstQuadrant(Deg(180) - r)
        ELSE IF r <= Deg(270) THEN 0 - SinFirstQuadrant(r - Deg(180))
        ELSE 0 - SinFirstQuadrant(Deg(360) - r)

\* math.cos(math.radians(a)), a in centidegrees
CosOfDegrees(a) == SinOfDegrees(a + Deg(90))

\* the sign of the float math.sin(math.radians(a)): radians(180 n) is not a
\* multiple of pi, so the sine of a non-zero multiple of 180 degrees is a
\* tiny non-zero number with the sign of the rounding error
\* (1.2e-16 at 180, -2.4e-16 at 360, 3.7e-16 at 540, -1.2e-16 at -180)
SinSign(a) ==
    IF a = 0 THEN 0
    ELSE IF a % Deg(180) = 0
         THEN (LET n == a \div Deg(180)
               IN  IF (n % 2 = 1) = (n > 0) THEN 1 ELSE 0 - 1)
    ELSE IF SinOfDegrees(a) >= 0 THEN 1 ELSE 0 - 1

\* math.atan2(y, x) in centidegrees, cut down to a whole degree, from the
\* signs and sizes of y and x; a size of 0 with a sign other than 0 is a
\* number too small for the grid
Atan2Degrees(ysign, ymag, xsign, xmag) ==
    LET first ==
            IF xsign = 0 THEN 90
            ELSE IF ymag = 0 THEN 0
            ELSE IF xmag = 0 THEN 90
            ELSE \* the largest k with tan(k) <= y / x; tan is increasing
                 Cardinality({k \in 1..89 :
                     SinTable[k + 1] * xmag <= SinTable[91 - k] * ymag})
        whole ==
            \/ xsign = 0 \/ ymag = 0 \/ xmag = 0
            \/ SinTable[first + 1] * xmag = SinTable[91 - first] * ymag
        size == IF xsign >= 0 THEN Deg(first)
                ELSE IF whole THEN Deg(180 - first)
                ELSE Deg(179 - first)
    IN  IF ysign = 0 THEN (IF xsign >= 0 THEN 0 ELSE Deg(180))
        ELSE ysign * size

----------------------------------------------------------------------------
(* Values *)

NoGeometry == [tag |-> "None"]
NoValue == [tag |-> "None"]

Raised(exc) == [outcome |-> exc, value |-> NoValue]
Returned(v) == [outcome |-> "ok", value |-> v]

HasGeometry(g) == g.geometry # NoGeometry

\* __init__ of both generators (samrat_yantra.py 32-42, rama_yantra.py 36-46)
NewGenerator(kind, latitude, longitude, scale) ==
    [kind |-> kind, latitude |-> latitude, longitude |-> longitude,
     scale |-> scale, geometry |-> NoGeometry]

----------------------------------------------------------------------------
(* SamratYantraGenerator *)

\* range(-6, 6): the hour lines without the closing +90 degrees
HourAnglesHalfOpen == [i \in 1..12 |-> (i - 7) * Deg(15)]

HourAngles == [i \in 1..13 |-> (i - 7) * Deg(15)]

\* kerf taken off the cut widths instead of added
SamratGenerateKerfInward(scale, material_thickness, kerf, include_base) ==
    LET gnomon_height == scale
        gnomon_base_width == (gnomon_height * 15) \div 100
        quadrant_radius == (gnomon_height * 7) \div 10
        base_length == IF include_base THEN (quadrant_radius * 25) \div 10 ELSE 0
        base_width == IF include_base THEN (quadrant_radius * 25) \div 10 ELSE 0
        base_height == IF include_base THEN (gnomon_height * 5) \div 100 ELSE 0
    IN  [tag |-> "SamratGeometry",
         gnomon_height |-> gnomon_height,
         gnomon_base_width |->
             IF kerf > 0 THEN gnomon_base_width - kerf ELSE gnomon_base_width,
         gnomon_thickness |-> material_thickness,
         quadrant_radius |->
             IF kerf > 0 THEN quadrant_radius - kerf ELSE quadrant_radius,
         hour_line_angles |-> HourAngles,
         scale_divisions |-> 60,
         base_length |-> base_length,
         base_width |-> base_width,
         base_height |-> base_height]

\* the kerf added before the base platform is sized
SamratGenerateKerfFirst(scale, material_thickness, kerf, include_base) ==
    LET gnomon_height == scale
        gnomon_base_width ==
            (gnomon_height * 15) \div 100 + (IF kerf > 0 THEN kerf ELSE 0)
        quadrant_radius ==
            (gnomon_height * 7) \div 10 + (IF kerf > 0 THEN kerf ELSE 0)
        base_length == IF include_base THEN (quadrant_radius * 25) \div 10 ELSE 0
        base_width == IF include_base THEN (quadrant_radius * 25) \div 10 ELSE 0
        base_height == IF include_base THEN (gnomon_height * 5) \div 100 ELSE 0
    IN  [tag |-> "SamratGeometry",
         gnomon_height |-> gnomon_height,
         gnomon_base_width |-> gnomon_base_width,
         gnomon_thickness |-> material_thickness,
         quadrant_radius |-> quadrant_radius,
         hour_line_angles |-> HourAngles,
         scale_divisions |-> 60,
         base_length |-> base_length,
         base_width |-> base_width,
         base_height |-> base_height]

SamratGenerate(scale, material_thickness, kerf, include_base) ==
    LET gnomon_height == scale
        gnomon_base_width == (gnomon_height * 15) \div 100
        quadrant_radius == (gnomon_height * 7) \div 10
        base_length == IF include_base THEN (quadrant_radius * 25) \div 10 ELSE 0
        base_width == IF include_base THEN (quadrant_radius * 25) \div 10 ELSE 0
        base_height == IF include_base THEN (gnomon_height * 5) \div 100 ELSE 0
    IN  [tag |-> "SamratGeometry",
         gnomon_height |-> gnomon_height,
         gnomon_base_width |->
             IF kerf > 0 THEN gnomon_base_width + kerf ELSE gnomon_base_width,
         gnomon_thickness |-> material_thickness,
         quadrant_radius |->
             IF kerf > 0 THEN quadrant_radius + kerf ELSE quadrant_radius,
         hour_line_angles |-> HourAngles,
         scale_divisions |-> 60,
         base_length |-> base_length,
         base_width |-> base_width,
         base_height |-> base_height]

\* shadow_azimuth = (sun_azimuth + 180) % 360; Python's % takes the sign of
\* the divisor, as TLA+'s % does.
\* the opposite direction without the reduction to one turn
ShadowAzimuthUnreduced(sun_azimuth) == sun_azimuth + Deg(180)

ShadowAzimuth(sun_azimuth) == (sun_azimuth + Deg(180)) % Deg(360)

\* sun_altitude > 0 as Python evaluates it on the float
IsPositive(sun_altitude, subnormal) == sun_altitude > 0 \/ subnormal

\* 'readable': 0 < sun_altitude < 85
\* a readable range that takes in its upper end
InReadableRangeClosed(sun_altitude, subnormal) ==
    IsPositive(sun_altitude, subnormal) /\ sun_altitude <= Deg(85)

InReadableRange(sun_altitude, subnormal) ==
    IsPositive(sun_altitude, subnormal) /\ sun_altitude < Deg(85)

\* gnomon_height / math.tan(alt_rad), floored to the length grid
ShadowLength(gnomon_height, sun_altitude) ==
    (gnomon_height * TanScale) \div TanOfDegrees(sun_altitude)

\* local solar time is kept in units of 1/1500 hour, the time the hour angle
\* turns by 0.01 degree
TimeScale == 15 * AngleScale

Sign(x) == IF x > 0 THEN 1 ELSE IF x < 0 THEN 0 - 1 ELSE 0

\* hour_angle_deg = degrees(atan2(sin_ha, cos_ha)) with
\*   sin_ha = sin(az) / cos(alt)
\*   cos_ha = (sin(alt) - sin(lat)) / (cos(lat) * cos(alt)).
\* Both are taken times cos(lat) * cos(alt), which leaves atan2 unchanged:
\* that factor is positive for every latitude and altitude in [-90, 90]
\* (math.cos(math.radians(90)) is 6.1e-17).  sign is the sign of the float,
\* which hour_angle loses when the angle is below the grid.
SamratHourAngle(latitude, sun_altitude, sun_azimuth) ==
    LET lat == latitude \div (CoordScale \div AngleScale)
        sin_ha_sign == SinSign(sun_azimuth)
        sin_ha_size ==
            (Abs(SinOfDegrees(sun_azimuth)) * CosOfDegrees(lat)) \div 10^3
        cos_ha_sign == Sign(sun_altitude * (CoordScale \div AngleScale) - latitude)
        cos_ha_size ==
            IF cos_ha_sign = 0 THEN 0
            ELSE (Abs(SinOfDegrees(sun_altitude) - SinOfDegrees(lat)) * SinScale)
                     \div 10^3
        hour_angle_deg ==
            Atan2Degrees(sin_ha_sign, sin_ha_size, cos_ha_sign, cos_ha_size)
    IN  [hour_angle |-> hour_angle_deg,
         sign |-> IF hour_angle_deg # 0 THEN Sign(hour_angle_deg) ELSE sin_ha_sign]

SamratShadowPrediction(g, sun_altitude, subnormal, sun_azimuth) ==
    IF ~HasGeometry(g) THEN Raised("ValueError")
    ELSE IF CosIsZero(sun_altitude) \/ CosIsZero(g.latitude)
         THEN Raised("ZeroDivisionError")
    ELSE IF IsPositive(sun_altitude, subnormal) /\ TanOfDegrees(sun_altitude) = 0
         THEN Raised("ZeroDivisionError")
    ELSE LET ha == SamratHourAngle(g.latitude, sun_altitude, sun_azimuth) IN
         Returned(
        [sun_altitude |-> sun_altitude,
         sun_azimuth |-> sun_azimuth,
         shadow_azimuth |-> ShadowAzimuth(sun_azimuth),
         hour_angle |-> ha.hour_angle,
         hour_angle_sign |-> ha.sign,
         local_solar_time |-> 12 * TimeScale + ha.hour_angle,
         quadrant |-> IF ha.sign < 0 THEN "east" ELSE "west",
         shadow_length |->
             IF IsPositive(sun_altitude, subnormal)
             THEN Min(ShadowLength(g.geometry.gnomon_height, sun_altitude),
                      g.geometry.quadrant_radius)
             ELSE g.geometry.quadrant_radius,
         readable |-> InReadableRange(sun_altitude, subnormal)])

SamratHourLineCoordinates(g) ==
    IF ~HasGeometry(g) THEN Raised("ValueError")
    ELSE Returned(
        [i \in 1..(2 * Len(g.geometry.hour_line_angles)) |->
            [quadrant |-> IF i % 2 = 1 THEN "east" ELSE "west",
             hour_angle |-> g.geometry.hour_line_angles[(i + 1) \div 2],
             start_radius |-> g.geometry.gnomon_base_width \div 2,
             end_radius |-> g.geometry.quadrant_radius]])

SamratGnomonVertices(g) ==
    IF ~HasGeometry(g) THEN Raised("ValueError")
    ELSE Returned([n_vertices |-> 8,
                   base_half_width |-> g.geometry.gnomon_base_width \div 2])

SamratDimensionsDict(g) ==
    IF ~HasGeometry(g) THEN Raised("ValueError")
    ELSE Returned(
        [yantra_type |-> "samrat",
         scale |-> g.scale,
         overall |-> [length |-> g.geometry.base_length,
                      width |-> g.geometry.base_width,
                      height |-> g.geometry.gnomon_height + g.geometry.base_height]])

SamratBillOfMaterials(g) ==
    IF ~HasGeometry(g) THEN Raised("ValueError")
    ELSE Returned([n_items |-> 4])

----------------------------------------------------------------------------
(* RamaYantraGenerator *)

RamaGenerate(scale, material_thickness, kerf, include_base) ==
    LET pillar_radius == scale
        pillar_height == pillar_radius * 2
        pillar_separation == (pillar_radius * 5) \div 10
        wall_thickness == Max(material_thickness, (pillar_radius * 1) \div 10)
        central_platform_radius == (pillar_separation * 4) \div 10
        gnomon_height == (pillar_height * 3) \div 10
        base_diameter ==
            IF include_base
            THEN ((pillar_radius * 2 + pillar_separation) * 13) \div 10
            ELSE 0
        base_height == IF include_base THEN (pillar_height * 3) \div 100 ELSE 0
    IN  [tag |-> "RamaGeometry",
         pillar_radius |-> IF kerf > 0 THEN pillar_radius + kerf ELSE pillar_radius,
         pillar_height |-> pillar_height,
         pillar_separation |-> pillar_separation,
         wall_thickness |-> IF kerf > 0 THEN wall_thickness + kerf ELSE wall_thickness,
         azimuth_divisions |-> 360,
         altitude_scale_height |-> pillar_height,
         central_platform_radius |-> central_platform_radius,
         gnomon_height |-> gnomon_height,
         base_diameter |-> base_diameter,
         base_height |-> base_height]

\* the sector ranges without their end points
InSectorAOpen(az) ==
    (Deg(45) < az /\ az < Deg(135)) \/ (Deg(225) < az /\ az < Deg(315))

\* in_sector_A = (45 <= az <= 135) or (225 <= az <= 315); az in angle units
InSectorA(az) ==
    (Deg(45) <= az /\ az <= Deg(135)) \/ (Deg(225) <= az /\ az <= Deg(315))

SectorOf(az) == IF InSectorA(az) THEN "A" ELSE "B"

\* max_floor_radius = g.pillar_radius - g.wall_thickness
\* a floor that runs to the wall's outer face
MaxFloorRadiusOuter(geometry) == geometry.pillar_radius

MaxFloorRadius(geometry) == geometry.pillar_radius - geometry.wall_thickness

\* reaches_wall = shadow_length_floor <= max_floor_radius, where
\* shadow_length_floor is gnomon_height / tan(altitude) for a positive
\* altitude and float('inf') otherwise.  The quotient is compared exactly:
\* h / t <= r  iff  ceil(h / t) <= r  for an integer r.
ReachesWall(geometry, sun_altitude, subnormal) ==
    IF ~IsPositive(sun_altitude, subnormal) THEN FALSE
    ELSE CeilDiv(geometry.gnomon_height * TanScale, TanOfDegrees(sun_altitude))
             <= MaxFloorRadius(geometry)

RamaShadowPrediction(g, sun_altitude, subnormal, sun_azimuth) ==
    IF ~HasGeometry(g) THEN Raised("ValueError")
    ELSE IF IsPositive(sun_altitude, subnormal) /\ TanOfDegrees(sun_altitude) = 0
         THEN Raised("ZeroDivisionError")
    ELSE Returned(
        [sun_altitude |-> sun_altitude,
         sun_azimuth |-> sun_azimuth,
         shadow_azimuth |-> ShadowAzimuth(sun_azimuth),
         shadow_length |->
             IF IsPositive(sun_altitude, subnormal)
             THEN Min(ShadowLength(g.geometry.gnomon_height, sun_altitude),
                      MaxFloorRadius(g.geometry))
             ELSE MaxFloorRadius(g.geometry),
         sector |-> SectorOf(ShadowAzimuth(sun_azimuth)),
         readable |-> InReadableRange(sun_altitude, subnormal)
                      /\ ReachesWall(g.geometry, sun_altitude, subnormal),
         azimuth_reading |-> ShadowAzimuth(sun_azimuth),
         altitude_reading |-> sun_altitude])

\* 4 rings of num_segments + 1 = 61 vertices each
RamaPillarVertices(g, sector) ==
    IF ~HasGeometry(g) THEN Raised("ValueError")
    ELSE Returned([n_vertices |-> 4 * 61,
                   sector |-> sector,
                   inner_radius |-> MaxFloorRadius(g.geometry)])

\* round(azimuth / 22.5) % 16 for a whole-degree azimuth (no ties occur)
CardinalIndex(azimuth_deg) == ((4 * azimuth_deg + 45) \div 90) % 16

RamaAzimuthMarkings(g) ==
    IF ~HasGeometry(g) THEN Raised("ValueError")
    ELSE Returned(
        [i \in 1..360 |->
            [azimuth |-> i - 1,
             cardinal |-> CardinalIndex(i - 1),
             start_radius |-> g.geometry.central_platform_radius,
             end_radius |-> MaxFloorRadius(g.geometry),
             sector |-> SectorOf(Deg(i - 1)),
             major |-> (i - 1) % 10 = 0]])

RamaAltitudeScale(g, sector) ==
    IF ~HasGeometry(g) THEN Raised("ValueError")
    ELSE Returned(
        [i \in 1..91 |->
            LET altitude == i - 1
                wall_height == (altitude * g.geometry.altitude_scale_height) \div 90
                theoretical_height ==
                    IF altitude < 89
                    THEN (g.geometry.gnomon_height * TanOfDegrees(Deg(altitude)))
                             \div TanScale
                    ELSE g.geometry.altitude_scale_height
            IN  [altitude |-> altitude,
                 wall_height |-> Min(wall_height, g.geometry.pillar_height),
                 theoretical_height |->
                     Min(theoretical_height, g.geometry.pillar_height),
                 sector |-> sector,
                 major |-> altitude % 5 = 0]])

RamaDimensionsDict(g) ==
    IF ~HasGeometry(g) THEN Raised("ValueError")
    ELSE Returned(
        [yantra_type |-> "rama",
         scale |-> g.scale,
         overall |-> [diameter |-> g.geometry.base_diameter,
                      height |-> g.geometry.pillar_height + g.geometry.base_height]])

RamaBillOfMaterials(g) ==
    IF ~HasGeometry(g) THEN Raised("ValueError")
    ELSE Returned([n_items |-> 7])

----------------------------------------------------------------------------
(* The generator contract: generate, get_shadow_prediction.  Besides the   *)
(* two classes of the repository, the validators accept any object with a  *)
(* get_shadow_prediction method (their parameter is untyped); kind "other" *)
(* is such an object, whose reading carries an altitude_reading and an     *)
(* azimuth_reading that differ from the sun position by one of the pairs   *)
(* <<altitude offset, azimuth offset>> of ReadingOffsets.                  *)

ConcreteKinds == {"samrat", "rama"}

ReadingOffsets ==
    {<<0, d>> : d \in {0, 9, 10, 49, 50, 99, 100, 300, 0 - 300, Deg(180)}}
    \cup {<<d, 0>> : d \in {9, 10, 50, 100}}
    \cup {<<10, 9>>, <<49, 50>>}

\* a generate that keeps the geometry it already holds
GenerateGeometryCached(g, material_thickness, kerf, include_base) ==
    IF HasGeometry(g) THEN g.geometry
    ELSE IF g.kind = "samrat"
    THEN SamratGenerate(g.scale, material_thickness, kerf, include_base)
    ELSE RamaGenerate(g.scale, material_thickness, kerf, include_base)

GenerateGeometry(g, material_thickness, kerf, include_base) ==
    IF g.kind = "samrat"
    THEN SamratGenerate(g.scale, material_thickness, kerf, include_base)
    ELSE RamaGenerate(g.scale, material_thickness, kerf, include_base)

\* the outcomes of generator.get_shadow_prediction(sun_altitude, sun_azimuth)
ShadowPredictions(g, sun_altitude, subnormal, sun_azimuth) ==
    CASE g.kind = "samrat" ->
            {SamratShadowPrediction(g, sun_altitude, subnormal, sun_azimuth)}
      [] g.kind = "rama" ->
            {RamaShadowPrediction(g, sun_altitude, subnormal, sun_azimuth)}
      [] OTHER ->
            {Returned([altitude_reading |-> sun_altitude + d[1],
                       azimuth_reading |-> (sun_azimuth + d[2]) % Deg(360)]) :
                d \in ReadingOffsets}

----------------------------------------------------------------------------
(* Inputs *)

Latitudes == {Coord(0 - 90), 269124 * 10^3, Coord(90)}
Longitudes == {757873 * 10^3}
Scales == {0 - LenScale, 0, LenScale \div 5, LenScale}
MaterialThicknesses == {10, LenScale}
Kerfs == {0, 10}
Sectors == {"A", "B"}

SunAltitudes ==
    {Deg(0 - 90), Deg(0 - 1), 0, Deg(1), Deg(33), Deg(34), Deg(60),
     Deg(84), Deg(85), Deg(90)}
SunAzimuths ==
    {Deg(0 - 180), Deg(0 - 1), 0, Deg(45), Deg(135), Deg(179), Deg(180),
     22499, Deg(225), Deg(315), 31501, Deg(540)}

\* a float altitude: its grid value and whether it is a positive subnormal
SunAltitudeFloats ==
    {<<a, FALSE>> : a \in SunAltitudes} \cup {<<0, TRUE>>}

----------------------------------------------------------------------------
(* Method calls on one generator object *)

Call(op, args, result) ==
    [op |-> op, args |-> args, outcome |-> result.outcome, value |-> result.value]

NoCall == Call("__init__", NoValue, Returned(NoValue))

\* generate(material_thickness=0.01, ...) of the Samrat generator and
\* generate(material_thickness=0.15, ...) of the Rama generator
DefaultMaterialThickness(kind) ==
    IF kind = "samrat" THEN LenScale \div 100 ELSE (15 * LenScale) \div 100

\* the material_thickness argument: <<supplied by the caller, value used>>
MaterialThicknessArgs(kind) ==
    {<<TRUE, v>> : v \in MaterialThicknesses}
    \cup {<<FALSE, DefaultMaterialThickness(kind)>>}

\* The caller's references.  generate returns self.geometry, the object it has
\* just stored, so a caller that keeps the return values of earlier calls holds
\* the objects themselves: "returned" is an object's fields when generate
\* returned it, "now" its fields as they are.  keep is the number of earlier
\* objects the caller keeps besides the one the generator refers to.
NoneHeld(keep) == [keep |-> keep, objects |-> <<>>]

\* the objects that share the identity of the stored one are rewritten
AllocateInPlace(objects, geometry) ==
    Append([i \in DOMAIN objects |-> [objects[i] EXCEPT !.now = geometry]],
           [returned |-> geometry, now |-> geometry])

\* self.geometry = SamratGeometry(...) / RamaGeometry(...): a new object; the
\* objects constructed before it are not written to
Allocate(objects, geometry) ==
    Append(objects, [returned |-> geometry, now |-> geometry])

\* the caller lets go of all but the latest n objects
Latest(n, objects) ==
    IF Len(objects) <= n THEN objects
    ELSE SubSeq(objects, Len(objects) - n + 1, Len(objects))

Generate ==
    /\ generator.kind \in ConcreteKinds
    /\ \E thickness \in MaterialThicknessArgs(generator.kind), kerf \in Kerfs,
          include_base \in BOOLEAN :
          LET material_thickness == thickness[2]
              geometry ==
                  GenerateGeometry(generator, material_thickness, kerf, include_base)
          IN  /\ generator' = [generator EXCEPT !.geometry = geometry]
              /\ held' = [held EXCEPT
                             !.objects = Latest(held.keep + 1, Allocate(@, geometry))]
              /\ last' = Call("generate",
                              [material_thickness |-> material_thickness,
                               thickness_supplied |-> thickness[1],
                               kerf |-> kerf, include_base |-> include_base],
                              Returned(geometry))
    /\ UNCHANGED <<validation, server>>

GetHourLineCoordinates ==
    /\ generator.kind = "samrat"
    /\ last' = Call("get_hour_line_coordinates", NoValue,
                    SamratHourLineCoordinates(generator))
    /\ UNCHANGED <<generator, held, validation, server>>

GetGnomonVertices ==
    /\ generator.kind = "samrat"
    /\ last' = Call("get_gnomon_vertices", NoValue, SamratGnomonVertices(generator))
    /\ UNCHANGED <<generator, held, validation, server>>

GetPillarVertices ==
    /\ generator.kind = "rama"
    /\ \E sector \in Sectors :
          last' = Call("get_pillar_vertices", [sector |-> sector],
                       RamaPillarVertices(generator, sector))
    /\ UNCHANGED <<generator, held, validation, server>>

GetAzimuthMarkings ==
    /\ generator.kind = "rama"
    /\ last' = Call("get_azimuth_markings", NoValue, RamaAzimuthMarkings(generator))
    /\ UNCHANGED <<generator, held, validation, server>>

GetAltitudeScale ==
    /\ generator.kind = "rama"
    /\ \E sector \in Sectors :
          last' = Call("get_altitude_scale", [sector |-> sector],
                       RamaAltitudeScale(generator, sector))
    /\ UNCHANGED <<generator, held, validation, server>>

GetShadowPrediction ==
    /\ generator.kind \in ConcreteKinds
    /\ \E alt \in SunAltitudeFloats, sun_azimuth \in SunAzimuths :
          \E result \in ShadowPredictions(generator, alt[1], alt[2], sun_azimuth) :
              last' = Call("get_shadow_prediction",
                           [sun_altitude |-> alt[1], subnormal |-> alt[2],
                            sun_azimuth |-> sun_azimuth],
                           result)
    /\ UNCHANGED <<generator, held, validation, server>>

GetDimensionsDict ==
    /\ generator.kind \in ConcreteKinds
    /\ last' = Call("get_dimensions_dict", NoValue,
                    IF generator.kind = "samrat"
                    THEN SamratDimensionsDict(generator)
                    ELSE RamaDimensionsDict(generator))
    /\ UNCHANGED <<generator, held, validation, server>>

GetBillOfMaterials ==
    /\ generator.kind \in ConcreteKinds
    /\ last' = Call("get_bill_of_materials", NoValue,
                    IF generator.kind = "samrat"
                    THEN SamratBillOfMaterials(generator)
                    ELSE RamaBillOfMaterials(generator))
    /\ UNCHANGED <<generator, held, validation, server>>

----------------------------------------------------------------------------
(* The accuracy validators *)

RECURSIVE SqrtSearch(_, _, _)
\* the largest r in lo..hi with r * r <= n
SqrtSearch(lo, hi, n) ==
    IF lo >= hi THEN lo
    ELSE LET mid == (lo + hi + 1) \div 2
         IN  IF mid * mid <= n THEN SqrtSearch(mid, hi, n)
             ELSE SqrtSearch(lo, mid - 1, n)

\* (a**2 + b**2) ** 0.5, floored to the angle grid
RmsError(a, b) == SqrtSearch(0, Deg(450), a * a + b * b)

\* a missing altitude reading taken as the horizon
AltitudeReadingHorizon(pred, truth) ==
    IF "altitude_reading" \in DOMAIN pred THEN pred.altitude_reading
    ELSE 0

\* the truth taken whether or not the reading has an azimuth
AzimuthReadingOfTruth(pred, truth) == truth.azimuth

\* pred.get(key, default) for the two keys the validators read
AltitudeReading(pred, truth) ==
    IF "altitude_reading" \in DOMAIN pred THEN pred.altitude_reading
    ELSE truth.altitude
AzimuthReading(pred, truth) ==
    IF "azimuth_reading" \in DOMAIN pred THEN pred.azimuth_reading
    ELSE truth.azimuth

\* the wrapped difference without the half-turn shift
ServiceAzimuthErrorUnshifted(az_pred, az_true) ==
    Abs(((az_pred - az_true + Deg(360)) % Deg(360)) - Deg(180))

\* ValidationService.compare_shadow: az_diff
ServiceAzimuthError(az_pred, az_true) ==
    Abs(((az_pred - az_true + Deg(540)) % Deg(360)) - Deg(180))

\* the difference without abs()
EndpointAzimuthErrorSigned(az_pred, az_true) == az_pred - az_true

\* validate_yantra_accuracy: azimuth_error
EndpointAzimuthError(az_pred, az_true) == Abs(az_pred - az_true)

\* ValidationService.compare_shadow, from the reading on
CompareShadowResult(pred, truth) ==
    LET alt_pred == AltitudeReading(pred, truth)
        az_pred == AzimuthReading(pred, truth)
        alt_err == Abs(alt_pred - truth.altitude)
        az_diff == ServiceAzimuthError(az_pred, truth.azimuth)
    IN  [altitude_error |-> alt_err,
         azimuth_error |-> az_diff,
         rms_error |-> RmsError(alt_err, az_diff),
         predicted_altitude |-> alt_pred,
         predicted_azimuth |-> az_pred,
         declination |-> truth.declination,
         hour_angle |-> truth.hour_angle]

\* accuracy levels whose limits fall in the better level
AccuracyLevelClosed(max_error) ==
    IF max_error <= AngleScale \div 10 THEN "excellent"
    ELSE IF max_error <= AngleScale \div 2 THEN "good"
    ELSE IF max_error <= AngleScale THEN "acceptable"
    ELSE "poor"

\* the accuracy level of validate_yantra_accuracy; 0.1, 0.5 and 1.0 degrees
AccuracyLevel(max_error) ==
    IF max_error < AngleScale \div 10 THEN "excellent"
    ELSE IF max_error < AngleScale \div 2 THEN "good"
    ELSE IF max_error < AngleScale THEN "acceptable"
    ELSE "poor"

\* validate_yantra_accuracy, from the reading on
ValidateAccuracyResult(shadow, actual_sun) ==
    LET altitude_error ==
            Abs(AltitudeReading(shadow, actual_sun) - actual_sun.altitude)
        azimuth_error ==
            EndpointAzimuthError(AzimuthReading(shadow, actual_sun),
                                 actual_sun.azimuth)
        max_error == Max(altitude_error, azimuth_error)
    IN  [predicted_altitude |-> AltitudeReading(shadow, actual_sun),
         predicted_azimuth |-> AzimuthReading(shadow, actual_sun),
         actual_altitude |-> actual_sun.altitude,
         actual_azimuth |-> actual_sun.azimuth,
         altitude_error |-> altitude_error,
         azimuth_error |-> azimuth_error,
         rms_error |-> RmsError(altitude_error, azimuth_error),
         max_error |-> max_error,
         accuracy_level |-> AccuracyLevel(max_error)]

(* The ephemeris oracle: a black box that fails or returns a sun position  *)
(* with altitude in [-90, 90] and azimuth in [0, 360).                     *)
TrueAltitudes == {Deg(0 - 90), 0, Deg(34), Deg(90)}
TrueAzimuths == {0, 200, Deg(180), Deg(359)}

SunPositions ==
    {[altitude |-> a, subnormal |-> FALSE, azimuth |-> z,
      declination |-> 2344, hour_angle |-> 0] :
        a \in TrueAltitudes, z \in TrueAzimuths}
    \cup {[altitude |-> 0, subnormal |-> TRUE, azimuth |-> Deg(180),
           declination |-> 2344, hour_angle |-> 0]}

\* get_sun_position raises (an unreachable backend, a malformed timestamp) or
\* returns a position
OracleFailures == {"EphemerisError", "ValueError"}
OracleOutcomes ==
    {Raised(exc) : exc \in OracleFailures} \cup {Returned(t) : t \in SunPositions}

\* what a validator call leaves behind: the oracle's truth, the generator's
\* reading and the routine's own result, or the exception that ended it
Validated(routine, oracle, pred, result) ==
    [routine |-> routine, oracle |-> oracle.outcome, outcome |-> result.outcome,
     truth |-> oracle.value, pred |-> pred, value |-> result.value]

\* a sun position put in the place of a failed oracle call
DefaultSun ==
    [altitude |-> Deg(34), subnormal |-> FALSE, azimuth |-> Deg(180),
     declination |-> 2344, hour_angle |-> 0]

\* a validator that goes on with a default sun position when the oracle fails
ValidatorCallDefaultSun(routine) ==
    \E oracle \in OracleOutcomes :
        LET truth == IF oracle.outcome # "ok" THEN DefaultSun ELSE oracle.value
            known == [outcome |-> oracle.outcome, value |-> truth]
        IN  \E reading \in ShadowPredictions(generator, truth.altitude,
                                             truth.subnormal, truth.azimuth) :
                IF reading.outcome # "ok"
                THEN validation' = Validated(routine, known, NoValue, reading)
                ELSE validation' =
                        Validated(routine, known, reading.value,
                                  Returned(
                                      IF routine = "compare_shadow"
                                      THEN CompareShadowResult(reading.value, truth)
                                      ELSE ValidateAccuracyResult(reading.value,
                                                                  truth)))

ValidatorCall(routine) ==
    \E oracle \in OracleOutcomes :
        IF oracle.outcome # "ok"
        THEN validation' = Validated(routine, oracle, NoValue, oracle)
        ELSE LET truth == oracle.value IN
             \E reading \in ShadowPredictions(generator, truth.altitude,
                                              truth.subnormal, truth.azimuth) :
                IF reading.outcome # "ok"
                THEN validation' = Validated(routine, oracle, NoValue, reading)
                ELSE validation' =
                        Validated(routine, oracle, reading.value,
                                  Returned(
                                      IF routine = "compare_shadow"
                                      THEN CompareShadowResult(reading.value, truth)
                                      ELSE ValidateAccuracyResult(reading.value,
                                                                  truth)))

CompareShadow ==
    /\ ValidatorCall("compare_shadow")
    /\ UNCHANGED <<generator, held, last, server>>

ValidateYantraAccuracy ==
    /\ ValidatorCall("validate_yantra_accuracy")
    /\ UNCHANGED <<generator, held, last, server>>

----------------------------------------------------------------------------
(* The request model (app/models.py) *)

YantraTypes ==
    {"samrat", "rama", "digamsa", "dhruva_praksha", "bhitti", "rasivalaya",
     "nadi_valaya"}

\* Location: latitude ge=-90 le=90, longitude ge=-180 le=180,
\* elevation ge=-500 le=9000 (metres)
LocationValid(request) ==
    /\ request.latitude >= Coord(0 - 90) /\ request.latitude <= Coord(90)
    /\ request.longitude >= Coord(0 - 180) /\ request.longitude <= Coord(180)
    /\ request.elevation >= 0 - 500 /\ request.elevation <= 9000

\* a request model whose lower limits of scale and thickness are inclusive
RequestValidClosed(request) ==
    /\ request.yantra_type \in YantraTypes
    /\ LocationValid(request)
    /\ request.scale >= LenScale \div 10 /\ request.scale <= 1000 * LenScale
    /\ request.material_thickness >= 0 /\ request.material_thickness <= LenScale
    /\ request.kerf_compensation >= 0
    /\ request.kerf_compensation <= LenScale \div 100

\* YantraGenerationRequest: scale gt=0.1 le=1000, material_thickness gt=0 le=1,
\* kerf_compensation ge=0 le=0.01
RequestValid(request) ==
    /\ request.yantra_type \in YantraTypes
    /\ LocationValid(request)
    /\ request.scale > LenScale \div 10 /\ request.scale <= 1000 * LenScale
    /\ request.material_thickness > 0 /\ request.material_thickness <= LenScale
    /\ request.kerf_compensation >= 0
    /\ request.kerf_compensation <= LenScale \div 100

\* round(v, 6): to the nearest multiple of 1e-6 degree, ties to even
Round6(v) ==
    LET r == v % 10
        down == v - r
    IN  IF r < 5 THEN down
        ELSE IF r > 5 THEN down + 10
        ELSE IF (down \div 10) % 2 = 0 THEN down ELSE down + 10

----------------------------------------------------------------------------
(* The generation endpoint (app/api/generate.py) and the download endpoint *)
(* (app/api/export_router.py)                                              *)

ExportFormats == <<"dxf", "stl", "gltf", "pdf">>

EmptyDb == [projects |-> <<>>, exports |-> EmptyBag]

\* a response as the client sees it, with the request it answers and the
\* steps the handler took before answering
Response(endpoint, request, status, events, body) ==
    [endpoint |-> endpoint, request |-> request, status |-> status,
     events |-> events, body |-> body]

NoResponse == Response("none", NoValue, 0, <<>>, NoValue)

\* generate_yantra from its first statement to its return or its except
\* clause: the response, the steps taken in order, and the Project committed
\* (NoValue when none is).  oracle is what the ephemeris call does when it
\* is reached, commit_ok whether db.commit() succeeds when it is reached.
GenerateYantraRun(request, oracle, commit_ok, project_id) ==
    IF request.yantra_type \notin ConcreteKinds
    THEN \* HTTPException(400) is raised inside the try block and caught by
         \* "except Exception", which raises HTTPException(500)
         [response |-> Response("generate", request, 500, <<"unsupported_type">>,
                               NoValue),
          project |-> NoValue]
    ELSE
    LET constructed == NewGenerator(request.yantra_type, Round6(request.latitude),
                                    Round6(request.longitude), request.scale)
        geometry == GenerateGeometry(constructed, request.material_thickness,
                                     request.kerf_compensation, request.include_base)
        g == [constructed EXCEPT !.geometry = geometry]
        dims_dict == IF g.kind = "samrat" THEN SamratDimensionsDict(g).value
                     ELSE RamaDimensionsDict(g).value
        overall == dims_dict.overall
        length_value == IF "length" \in DOMAIN overall THEN overall.length
                        ELSE overall.diameter
        width_value == IF "length" \in DOMAIN overall THEN overall.width
                       ELSE overall.diameter
        dimensions == [overall_length |-> length_value,
                       overall_width |-> width_value,
                       overall_height |-> overall.height]
        before_oracle ==
            <<"construct", "generate", "dimensions", "bom", "oracle">>
        truth == oracle.value
        reading == CHOOSE r \in ShadowPredictions(g, truth.altitude,
                                                  truth.subnormal, truth.azimuth) : TRUE
        before_commit == before_oracle \o <<"predict", "commit">>
        scheduled == [i \in 1..Len(ExportFormats) |-> "schedule_" \o ExportFormats[i]]
    IN  IF oracle.outcome # "ok"
        THEN [response |-> Response("generate", request, 500, before_oracle, NoValue),
              project |-> NoValue]
        ELSE IF reading.outcome # "ok"
        THEN [response |-> Response("generate", request, 500,
                                    before_oracle \o <<"predict">>, NoValue),
              project |-> NoValue]
        ELSE IF ~commit_ok
        THEN [response |-> Response("generate", request, 500, before_commit, NoValue),
              project |-> NoValue]
        ELSE [response |->
                  Response("generate", request, 200, before_commit \o scheduled,
                           [yantra_type |-> request.yantra_type,
                            scale |-> request.scale,
                            dimensions |-> dimensions,
                            validation |-> ValidateAccuracyResult(reading.value,
                                                                  truth),
                            n_exports |-> Len(ExportFormats),
                            project_id |-> project_id]),
              project |-> [id |-> project_id,
                           yantra_type |-> request.yantra_type,
                           status |-> "generated"]]
    \* the other Project columns are copies of request fields and of the
    \* values already in the response body

\* The requests that reach the service: a well-formed base request and its
\* variations in one field at a time, on and either side of each limit.
BaseRequest ==
    [yantra_type |-> "samrat", latitude |-> 269124 * 10^3,
     longitude |-> 757873 * 10^3, elevation |-> 431, scale |-> LenScale,
     material_thickness |-> 10, kerf_compensation |-> 0, include_base |-> TRUE]

RequestTypes == YantraTypes \cup {"sundial"}
RequestLatitudes ==
    {Coord(0 - 90) - 1, Coord(0 - 90), 269124 * 10^3 + 5, Coord(90), Coord(90) + 1}
RequestLongitudes ==
    {Coord(0 - 180) - 1, Coord(0 - 180), Coord(180), Coord(180) + 1}
RequestElevations == {0 - 501, 0 - 500, 9000, 9001}
RequestScales ==
    {0 - LenScale, 0, LenScale \div 10, LenScale \div 10 + 1, 1000 * LenScale,
     1000 * LenScale + 1}
RequestThicknesses == {0 - 1, 0, 1, LenScale, LenScale + 1}
RequestKerfs == {0 - 1, 0, LenScale \div 100, LenScale \div 100 + 1}

Requests ==
    {[BaseRequest EXCEPT !.yantra_type = t] : t \in RequestTypes}
    \cup {[BaseRequest EXCEPT !.latitude = v] : v \in RequestLatitudes}
    \cup {[BaseRequest EXCEPT !.longitude = v] : v \in RequestLongitudes}
    \cup {[BaseRequest EXCEPT !.elevation = v] : v \in RequestElevations}
    \cup {[BaseRequest EXCEPT !.yantra_type = t, !.scale = v] :
            t \in ConcreteKinds, v \in RequestScales}
    \cup {[BaseRequest EXCEPT !.yantra_type = t, !.material_thickness = v] :
            t \in ConcreteKinds, v \in RequestThicknesses}
    \cup {[BaseRequest EXCEPT !.yantra_type = t, !.kerf_compensation = v] :
            t \in ConcreteKinds, v \in RequestKerfs}
    \cup {[BaseRequest EXCEPT !.yantra_type = t, !.include_base = FALSE] :
            t \in ConcreteKinds}

\* what the ephemeris call of the handler can do
EndpointSunPositions ==
    {[altitude |-> Deg(86), subnormal |-> FALSE, azimuth |-> Deg(180),
      declination |-> 2344, hour_angle |-> 0],
     [altitude |-> 0, subnormal |-> TRUE, azimuth |-> Deg(180),
      declination |-> 2344, hour_angle |-> 0]}
EndpointOracleOutcomes ==
    {Raised("EphemerisError")} \cup {Returned(t) : t \in EndpointSunPositions}

\* the number of Project rows the database is followed up to
MaxProjects == 1

\* POST /api/v1/generate/: the request model is validated first (a failure is
\* answered 422 by the handler in app/main.py and generate_yantra is never
\* entered); otherwise generate_yantra runs to its end.
GenerateYantra ==
    /\ Len(db.projects) < MaxProjects
    /\ \E request \in Requests, oracle \in EndpointOracleOutcomes,
          commit_ok \in BOOLEAN :
          IF ~RequestValid(request)
          THEN /\ http' = Response("generate", request, 422, <<>>, NoValue)
               /\ UNCHANGED <<db, tasks>>
          ELSE LET run == GenerateYantraRun(request, oracle, commit_ok,
                                            Len(db.projects) + 1)
               IN  /\ http' = run.response
                   /\ IF run.project = NoValue
                      THEN UNCHANGED <<db, tasks>>
                      ELSE /\ db' = [db EXCEPT
                                       !.projects = Append(@, run.project)]
                           /\ tasks' = Append(tasks, ExportFormats)
    /\ UNCHANGED <<generator, held, last, validation>>

\* a task whose failure is not caught ends the tasks queued behind it
RunExportTaskAborting ==
    \E project_id \in 1..Len(tasks), exported \in BOOLEAN :
        /\ tasks[project_id] # <<>>
        /\ tasks' = [tasks EXCEPT ![project_id] = IF exported THEN Tail(@) ELSE <<>>]
        /\ db' = IF exported
                 THEN [db EXCEPT !.exports =
                          @ (+) SetToBag({[project_id |-> project_id,
                                           file_format |-> Head(tasks[project_id])]})]
                 ELSE db
        /\ UNCHANGED <<generator, held, last, validation, http>>

\* generate_export_file: one background task, run to its end.  exported tells
\* whether the export, the file write and the commit all succeeded; any
\* exception is caught and printed.
RunExportTask ==
    \E project_id \in 1..Len(tasks), exported \in BOOLEAN :
        /\ tasks[project_id] # <<>>
        /\ tasks' = [tasks EXCEPT ![project_id] = Tail(@)]
        /\ db' = IF exported
                 THEN [db EXCEPT !.exports =
                          @ (+) SetToBag({[project_id |-> project_id,
                                           file_format |-> Head(tasks[project_id])]})]
                 ELSE db
        /\ UNCHANGED <<generator, held, last, validation, http>>

\* the formats asked for: two that are exported and one that never is
DownloadFormats == {"dxf", "pdf", "step"}

\* GET /api/v1/export/{project_id}/{fmt}
LatestExportForProject ==
    \E project_id \in 1..(Len(db.projects) + 1), fmt \in DownloadFormats,
       file_exists \in BOOLEAN :
        LET rec == [project_id |-> project_id, file_format |-> fmt]
        IN  /\ http' = IF ~BagIn(rec, db.exports)
                       THEN Response("export", rec, 404, <<"no_export">>, NoValue)
                       ELSE IF ~file_exists
                       THEN Response("export", rec, 404, <<"file_missing">>, NoValue)
                       ELSE Response("export", rec, 200, <<>>, rec)
            /\ UNCHANGED <<generator, held, last, validation, db, tasks>>

InitServer ==
    /\ db = EmptyDb
    /\ tasks = <<>>
    /\ http = NoResponse

NoValidation ==
    [routine |-> "none", oracle |-> "ok", outcome |-> "ok", truth |-> NoValue,
     pred |-> NoValue, value |-> NoValue]

Init ==
    /\ generator \in {NewGenerator(kind, latitude, longitude, scale) :
                        kind \in ConcreteKinds, latitude \in Latitudes,
                        longitude \in Longitudes, scale \in Scales}
    /\ held = NoneHeld(0)
    /\ last = NoCall
    /\ validation = NoValidation
    /\ InitServer

Next ==
    \/ Generate
    \/ GetHourLineCoordinates
    \/ GetGnomonVertices
    \/ GetPillarVertices
    \/ GetAzimuthMarkings
    \/ GetAltitudeScale
    \/ GetShadowPrediction
    \/ GetDimensionsDict
    \/ GetBillOfMaterials

Spec == Init /\ [][Next]_vars

ValidatorKinds == ConcreteKinds \cup {"other"}
ValidatorLatitudes == {269124 * 10^3, Coord(90)}
ValidatorScales == {LenScale \div 5, LenScale}

InitValidator ==
    /\ generator \in {NewGenerator(kind, latitude, longitude, scale) :
                        kind \in ValidatorKinds, latitude \in ValidatorLatitudes,
                        longitude \in Longitudes, scale \in ValidatorScales}
    /\ held = NoneHeld(0)
    /\ last = NoCall
    /\ validation = NoValidation
    /\ InitServer

NextValidator ==
    \/ Generate
    \/ CompareShadow
    \/ ValidateYantraAccuracy

SpecValidator == InitValidator /\ [][NextValidator]_vars

\* a caller that keeps the geometry objects of earlier generate calls
MaxHeld == 1
FrameLatitudes == {269124 * 10^3}
FrameScales == {LenScale}

InitFrame ==
    /\ generator \in {NewGenerator(kind, latitude, longitude, scale) :
                        kind \in ConcreteKinds, latitude \in FrameLatitudes,
                        longitude \in Longitudes, scale \in FrameScales}
    /\ held = NoneHeld(MaxHeld)
    /\ last = NoCall
    /\ validation = NoValidation
    /\ InitServer

SpecFrame == InitFrame /\ [][Next]_vars

EndpointGenerator == NewGenerator("samrat", 269124 * 10^3, 757873 * 10^3, LenScale)

InitEndpoint ==
    /\ generator = EndpointGenerator
    /\ held = NoneHeld(0)
    /\ last = NoCall
    /\ validation = NoValidation
    /\ InitServer

NextEndpoint == GenerateYantra \/ RunExportTask \/ LatestExportForProject

SpecEndpoint == InitEndpoint /\ [][NextEndpoint]_vars

----------------------------------------------------------------------------
(* Properties *)

\* C1: for predicted and true azimuths in [0, 360), both validator routines
\* report the smallest angular difference, a value in [0, 180]
\* (true 359, predicted 2 gives 3).
C1_SmallestAngularDifference ==
    (validation.outcome = "ok" /\ validation.routine # "none") =>
        LET d == Abs(validation.value.predicted_azimuth - validation.truth.azimuth)
        IN  /\ validation.value.azimuth_error = Min(d, Deg(360) - d)
            /\ validation.value.azimuth_error >= 0
            /\ validation.value.azimuth_error <= Deg(180)

\* C2: the accuracy level is decided by max(altitude error, azimuth error)
\* alone: excellent below 0.1, good in [0.1, 0.5), acceptable in [0.5, 1.0),
\* poor from 1.0 on.
C2_AccuracyTiers ==
    (validation.outcome = "ok" /\ validation.routine = "validate_yantra_accuracy") =>
        LET v == validation.value
            m == IF v.altitude_error >= v.azimuth_error THEN v.altitude_error
                 ELSE v.azimuth_error
        IN  /\ v.max_error = m
            /\ (v.accuracy_level = "excellent") = (m < 10)
            /\ (v.accuracy_level = "good") = (m >= 10 /\ m < 50)
            /\ (v.accuracy_level = "acceptable") = (m >= 50 /\ m < 100)
            /\ (v.accuracy_level = "poor") = (m >= 100)
            /\ v.accuracy_level \in {"excellent", "good", "acceptable", "poor"}

\* a validation whose largest error is exactly 0.1 degree, levelled good
C2_Witness ==
    /\ validation.outcome = "ok"
    /\ validation.routine = "validate_yantra_accuracy"
    /\ validation.value.max_error = 10
    /\ validation.value.accuracy_level = "good"

\* C3: when the reading equals the oracle's position, both errors and the
\* rms error are 0 and the level, where one is given, is excellent.
C3_ExactAgreement ==
    (/\ validation.outcome = "ok"
     /\ validation.routine # "none"
     /\ validation.value.predicted_altitude = validation.truth.altitude
     /\ validation.value.predicted_azimuth = validation.truth.azimuth) =>
        /\ validation.value.altitude_error = 0
        /\ validation.value.azimuth_error = 0
        /\ validation.value.rms_error = 0
        /\ validation.routine = "validate_yantra_accuracy" =>
               validation.value.accuracy_level = "excellent"

\* compare_shadow has validated a reading equal to the oracle's position
C3_Witness ==
    /\ validation.outcome = "ok"
    /\ validation.routine = "compare_shadow"
    /\ validation.value.predicted_altitude = validation.truth.altitude
    /\ validation.value.predicted_azimuth = validation.truth.azimuth
    /\ validation.truth.azimuth = Deg(359)

\* C4: every derived query fails with the not-generated error while the
\* generator has no geometry, and succeeds once generate has stored one.
C4_QueriesFollowGenerate ==
    (last.op \in {"get_hour_line_coordinates", "get_gnomon_vertices",
                  "get_pillar_vertices", "get_azimuth_markings",
                  "get_altitude_scale", "get_shadow_prediction",
                  "get_dimensions_dict", "get_bill_of_materials"}) =>
        IF HasGeometry(generator) THEN last.outcome = "ok"
        ELSE last.outcome = "ValueError"

\* C5: generate on a Samrat generator with scale <= 0 stores no geometry.
C5_NonPositiveScaleStoresNothing ==
    (generator.kind = "samrat" /\ generator.scale <= 0) => ~HasGeometry(generator)

\* C6: a request with latitude, longitude, scale, material thickness or kerf
\* out of range is answered before the handler takes any step (no generator,
\* no oracle call) and changes neither the projects nor the export tasks;
\* scale 0.1 and thickness 0 are out of range, scale 1000 and kerf 0 and 0.01
\* are in range and reach the handler.
C6_RejectedBeforeAnyWork ==
    /\ [](http.endpoint = "generate" =>
            LET r == http.request
                out == \/ r.latitude < 0 - 900000000 \/ r.latitude > 900000000
                       \/ r.longitude < 0 - 1800000000 \/ r.longitude > 1800000000
                       \/ r.scale <= 100 \/ r.scale > 1000000
                       \/ r.material_thickness <= 0 \/ r.material_thickness > 1000
                       \/ r.kerf_compensation < 0 \/ r.kerf_compensation > 10
                other == \/ r.elevation < 0 - 500 \/ r.elevation > 9000
                         \/ r.yantra_type \notin YantraTypes
            IN  /\ out => (http.status = 422 /\ http.events = <<>>)
                /\ (~out /\ ~other) => (http.status # 422 /\ http.events # <<>>))
    /\ [][(http'.endpoint = "generate" /\ http'.status = 422 /\ http' # http)
              => (db' = db /\ tasks' = tasks)]_vars

\* a request with scale exactly 0.1 has been rejected
C6_Witness ==
    /\ http.endpoint = "generate"
    /\ http.status = 422
    /\ http.request.scale = 100
    /\ db.projects = <<>>

\* C7: once a geometry is stored, get_shadow_prediction returns a reading
\* for every altitude in [-90, 90] and every azimuth, and never raises.
C7_PredictionNeverRaises ==
    (last.op = "get_shadow_prediction" /\ HasGeometry(generator)) =>
        last.outcome = "ok"

\* C8: a Samrat reading is readable exactly when 0 < altitude < 85.
C8_SamratReadable ==
    (/\ generator.kind = "samrat"
     /\ last.op = "get_shadow_prediction"
     /\ last.outcome = "ok") =>
        last.value.readable =
            (last.args.sun_altitude > 0 /\ last.args.sun_altitude < 8500)

\* Samrat readings at altitude 84 (readable) are returned
C8_Witness ==
    /\ generator.kind = "samrat"
    /\ last.op = "get_shadow_prediction"
    /\ last.outcome = "ok"
    /\ last.args.sun_altitude = 8400
    /\ last.value.readable

\* C9: a Rama reading is readable exactly when 0 < altitude < 85 and the
\* floor shadow gnomon_height / tan(altitude) is at most
\* pillar_radius - wall_thickness; at altitude <= 0 it is not readable.
C9_RamaReadable ==
    (/\ generator.kind = "rama"
     /\ last.op = "get_shadow_prediction"
     /\ last.outcome = "ok") =>
        LET a == last.args.sun_altitude
            geo == generator.geometry
        IN  /\ last.value.readable =
                  (/\ a > 0
                   /\ a < 8500
                   /\ geo.gnomon_height * TanScale
                        <= (geo.pillar_radius - geo.wall_thickness)
                             * TanOfDegrees(a))
            /\ a <= 0 => ~last.value.readable

\* a Rama reading above the horizon and below 85 degrees whose shadow
\* overruns the floor
C9_Witness ==
    /\ generator.kind = "rama"
    /\ last.op = "get_shadow_prediction"
    /\ last.outcome = "ok"
    /\ last.args.sun_altitude = 3300
    /\ generator.geometry.pillar_radius > generator.geometry.wall_thickness
    /\ ~last.value.readable

----------------------------------------------------------------------------
(* Generated geometry *)

\* the float fields of SamratGeometry and RamaGeometry that are lengths
SamratLengthFields ==
    {"gnomon_height", "gnomon_base_width", "gnomon_thickness",
     "quadrant_radius", "base_length", "base_width", "base_height"}

RamaLengthFields ==
    {"pillar_radius", "pillar_height", "pillar_separation", "wall_thickness",
     "altitude_scale_height", "central_platform_radius", "gnomon_height",
     "base_diameter", "base_height"}

LengthFields(kind) ==
    IF kind = "samrat" THEN SamratLengthFields ELSE RamaLengthFields

\* the ranges of YantraGenerationRequest: scale in (0.1, 1000],
\* material_thickness in (0, 1], kerf in [0, 0.01]
ValidGenerateInputs(scale, material_thickness, kerf) ==
    /\ scale > LenScale \div 10 /\ scale <= 1000 * LenScale
    /\ material_thickness > 0 /\ material_thickness <= LenScale
    /\ kerf >= 0 /\ kerf <= LenScale \div 100

\* the last operation was a generate() with inputs in the valid ranges
ValidGenerateCall ==
    /\ last.op = "generate"
    /\ last.outcome = "ok"
    /\ ValidGenerateInputs(generator.scale, last.args.material_thickness,
                           last.args.kerf)

\* C11: for all valid inputs, with the base either included or not, every
\* length field of the geometry that generate stores is non-negative, for
\* both instrument types.
C11_LengthsNonNegative ==
    ValidGenerateCall =>
        \A f \in LengthFields(generator.kind) : generator.geometry[f] >= 0

\* a Rama geometry without base from valid inputs: its base lengths are 0 and
\* its wall is the material thickness, larger than a tenth of the radius
C11_Witness ==
    /\ ValidGenerateCall
    /\ generator.kind = "rama"
    /\ ~last.args.include_base
    /\ generator.geometry.base_diameter = 0
    /\ generator.geometry.wall_thickness = last.args.material_thickness
    /\ generator.geometry.wall_thickness > generator.geometry.pillar_radius \div 10

\* C12: of two generate calls on one generator with the same material
\* thickness and the same base choice, the one with positive kerf stores no
\* length (so no radius and no width) smaller than the one with kerf 0.
C12_KerfNeverShrinks ==
    [][(/\ ValidGenerateCall
        /\ ValidGenerateCall'
        /\ last.args.kerf = 0
        /\ last'.args.kerf > 0
        /\ last'.args.material_thickness = last.args.material_thickness
        /\ last'.args.include_base = last.args.include_base) =>
            \A f \in LengthFields(generator.kind) :
                generator'.geometry[f] >= generator.geometry[f]]_vars

\* a geometry generated with positive kerf, whose cut radius exceeds the
\* radius the scale alone gives
C12_Witness ==
    /\ ValidGenerateCall
    /\ last.args.kerf > 0
    /\ generator.kind = "rama"
    /\ generator.geometry.pillar_radius > generator.scale

C14_SamratProportions ==
    (/\ generator.kind = "samrat"
     /\ ValidGenerateCall
     /\ last.args.kerf = 0) =>
        LET geo == generator.geometry
        IN  /\ geo.gnomon_height = generator.scale
            /\ geo.gnomon_base_width * 100 = 15 * generator.scale
            /\ geo.quadrant_radius * 10 = 7 * generator.scale
            /\ Len(geo.hour_line_angles) = 13
            /\ \A i \in 1..13 :
                   geo.hour_line_angles[i] = Deg(0 - 90) + (i - 1) * Deg(15)

\* a Samrat geometry of scale 0.2 m generated with kerf 0
C14_Witness ==
    /\ generator.kind = "samrat"
    /\ ValidGenerateCall
    /\ last.args.kerf = 0
    /\ generator.scale = LenScale \div 5
    /\ generator.geometry.quadrant_radius = 140
    /\ generator.geometry.hour_line_angles[13] = Deg(90)

\* C15: a Rama generate at scale 1.0 with kerf 0 and no material thickness
\* supplied by the caller stores pillar radius 1.0, pillar height 2.0, pillar
\* separation 0.5, wall thickness 0.1 and gnomon height 0.6.
C15_RamaUnitScale ==
    (/\ generator.kind = "rama"
     /\ last.op = "generate"
     /\ generator.scale = LenScale
     /\ last.args.kerf = 0
     /\ ~last.args.thickness_supplied) =>
        LET geo == generator.geometry
        IN  /\ geo.pillar_radius = LenScale
            /\ geo.pillar_height = 2 * LenScale
            /\ geo.pillar_separation = LenScale \div 2
            /\ geo.wall_thickness = LenScale \div 10
            /\ geo.gnomon_height = (6 * LenScale) \div 10

\* C16: for every valid input and every kerf in [0, 0.01], the Rama geometry
\* has pillar height = 2 x pillar radius, pillar separation = 0.5 x pillar
\* radius and wall thickness = max(material thickness, 0.1 x pillar radius),
\* the pillar radius being the one stored in that geometry.
C16_RamaProportions ==
    (/\ generator.kind = "rama"
     /\ ValidGenerateCall) =>
        LET geo == generator.geometry
        IN  /\ geo.pillar_height = 2 * geo.pillar_radius
            /\ geo.pillar_separation * 10 = 5 * geo.pillar_radius
            /\ geo.wall_thickness * 10
                 = Max(last.args.material_thickness * 10, geo.pillar_radius)

\* C17: for every valid input and every kerf in [0, 0.01], the Samrat
\* geometry with base has base length = base width = 2.5 x its stored
\* quadrant radius and base height = 0.05 x gnomon height; without base all
\* three base dimensions are 0.
C17_SamratBase ==
    (/\ generator.kind = "samrat"
     /\ ValidGenerateCall) =>
        LET geo == generator.geometry
        IN  IF last.args.include_base
            THEN /\ geo.base_length = geo.base_width
                 /\ geo.base_length * 10 = 25 * geo.quadrant_radius
                 /\ geo.base_height * 100 = 5 * geo.gnomon_height
            ELSE /\ geo.base_length = 0
                 /\ geo.base_width = 0
                 /\ geo.base_height = 0

\* a whole number of degrees
WholeDegrees(a) == a % AngleScale = 0

\* C18: get_azimuth_markings returns exactly 360 markings, for the azimuths
\* 0..359 in ascending order; a marking is in sector 'A' iff its azimuth is in
\* [45,135] or [225,315] and in 'B' otherwise, and is major iff its azimuth
\* is a multiple of 10; and a shadow prediction for a whole-degree sun
\* azimuth reports the sector of the marking at its shadow azimuth.
C18_AzimuthMarkings ==
    /\ [](( /\ last.op = "get_azimuth_markings"
            /\ last.outcome = "ok") =>
              /\ Len(last.value) = 360
              /\ \A i \in 1..360 :
                    LET m == last.value[i]
                    IN  /\ m.azimuth = i - 1
                        /\ m.sector \in {"A", "B"}
                        /\ m.sector = "A" <=>
                              \/ (45 <= m.azimuth /\ m.azimuth <= 135)
                              \/ (225 <= m.azimuth /\ m.azimuth <= 315)
                        /\ m.major <=> (m.azimuth % 10 = 0))
    /\ [][(/\ last.op = "get_azimuth_markings"
            /\ last.outcome = "ok"
            /\ last'.op = "get_shadow_prediction"
            /\ last'.outcome = "ok"
            /\ WholeDegrees(last'.args.sun_azimuth)) =>
              last'.value.sector
                = last.value[last'.value.shadow_azimuth \div AngleScale + 1].sector]_vars

\* the markings of a generated Rama yantra, with the sector boundaries 45 and
\* 315 in 'A' and their neighbours 44 and 316 in 'B'
C18_Witness ==
    /\ last.op = "get_azimuth_markings"
    /\ last.outcome = "ok"
    /\ Len(last.value) = 360
    /\ last.value[46].sector = "A"
    /\ last.value[316].sector = "A"
    /\ last.value[45].sector = "B"
    /\ last.value[317].sector = "B"

\* C19: for the sun in the eastern sky (0 < azimuth < 180, 0 < altitude < 90)
\* the Samrat prediction has a negative hour angle, a local solar time
\* before 12 and quadrant 'east'; in the western sky (180 < azimuth < 360) a
\* positive hour angle, a local solar time after 12 and quadrant 'west'.
C19_SamratSignConvention ==
    (/\ generator.kind = "samrat"
     /\ last.op = "get_shadow_prediction"
     /\ last.outcome = "ok"
     /\ last.args.sun_altitude > 0
     /\ last.args.sun_altitude < Deg(90)) =>
        LET az == last.args.sun_azimuth
            r == last.value
        IN  /\ (0 < az /\ az < Deg(180)) =>
                  /\ r.hour_angle_sign < 0
                  /\ r.local_solar_time < 12 * TimeScale
                  /\ r.quadrant = "east"
            /\ (Deg(180) < az /\ az < Deg(360)) =>
                  /\ r.hour_angle_sign > 0
                  /\ r.local_solar_time > 12 * TimeScale
                  /\ r.quadrant = "west"

\* C20: for the sun due south (azimuth 180) the Samrat prediction has hour
\* angle 0 and local solar time 12.0, at every northern latitude in (0, 90)
\* and every altitude in (0, 90).
C20_SamratNoon ==
    (/\ generator.kind = "samrat"
     /\ last.op = "get_shadow_prediction"
     /\ last.outcome = "ok"
     /\ generator.latitude > 0
     /\ generator.latitude < Coord(90)
     /\ last.args.sun_altitude > 0
     /\ last.args.sun_altitude < Deg(90)
     /\ last.args.sun_azimuth = Deg(180)) =>
        /\ last.value.hour_angle = 0
        /\ last.value.local_solar_time = 12 * TimeScale

----------------------------------------------------------------------------
(* Determinism and frame *)

C22_GeometryNeverMutated ==
    /\ [](\A i \in DOMAIN held.objects :
              held.objects[i].now = held.objects[i].returned)
    /\ [](held.objects # <<>> =>
              held.objects[Len(held.objects)].now = generator.geometry)
    /\ [][IF last'.op = "generate"
           THEN /\ generator' = [generator EXCEPT !.geometry = last'.value]
                /\ \A i \in DOMAIN held.objects :
                      i > Len(held.objects) - held.keep =>
                        \E j \in DOMAIN held'.objects :
                            /\ j < Len(held'.objects)
                            /\ held'.objects[j] = held.objects[i]
           ELSE generator' = generator /\ held' = held]_vars

\* after a second generate call with other arguments and a prediction on the
\* new geometry, the caller still holds the first geometry as returned
C22_Witness ==
    /\ Len(held.objects) = 2
    /\ held.objects[1].returned # held.objects[2].returned
    /\ held.objects[1].now = held.objects[1].returned
    /\ generator.geometry = held.objects[2].now
    /\ last.op = "get_shadow_prediction"
    /\ last.outcome = "ok"

----------------------------------------------------------------------------
(* Validation outcomes *)

\* C23: when the oracle call fails, the validator ends with that same
\* failure: it has not asked the generator for a reading, has put no sun
\* position in the oracle's place and returns no result.
C23_OracleFailurePropagates ==
    (validation.routine # "none" /\ validation.oracle # "ok") =>
        /\ validation.outcome = validation.oracle
        /\ validation.truth = NoValue
        /\ validation.pred = NoValue
        /\ validation.value = NoValue

\* validate_yantra_accuracy on a generated Rama yantra, ended by the
\* ValueError of the oracle
C23_Witness ==
    /\ validation.routine = "validate_yantra_accuracy"
    /\ validation.oracle = "ValueError"
    /\ validation.outcome = "ValueError"
    /\ generator.kind = "rama"
    /\ HasGeometry(generator)

\* a validator routine has returned a result for a generator of this kind
ValidationReturned(kind) ==
    /\ generator.kind = kind
    /\ validation.routine # "none"
    /\ validation.outcome = "ok"

\* C24: a validation of a Samrat generator reports altitude error 0, azimuth
\* error 0, rms error 0 and (where a level is reported) level excellent, for
\* every location and true sun position: its reading has no altitude_reading
\* and no azimuth_reading, so the truth stands in for both, whatever hour
\* angle and geometry the dial has.
C24_SamratAlwaysExact ==
    ValidationReturned("samrat") =>
        /\ "altitude_reading" \notin DOMAIN validation.pred
        /\ "azimuth_reading" \notin DOMAIN validation.pred
        /\ validation.value.predicted_altitude = validation.truth.altitude
        /\ validation.value.predicted_azimuth = validation.truth.azimuth
        /\ validation.value.altitude_error = 0
        /\ validation.value.azimuth_error = 0
        /\ validation.value.rms_error = 0
        /\ validation.routine = "validate_yantra_accuracy" =>
               /\ validation.value.max_error = 0
               /\ validation.value.accuracy_level = "excellent"

\* a Samrat validation at the pole for the sun due south at 34 degrees, where
\* the dial's own hour angle is 180 degrees
C24_Witness ==
    /\ ValidationReturned("samrat")
    /\ validation.routine = "validate_yantra_accuracy"
    /\ generator.latitude = Coord(90)
    /\ validation.truth.altitude = Deg(34)
    /\ validation.pred.hour_angle = Deg(180)
    /\ validation.value.accuracy_level = "excellent"

\* C25: a validation of a Rama generator reports, for every true sun position
\* with azimuth in [0, 360), altitude error 0 and azimuth error 180 (the
\* azimuth reading is the shadow azimuth, opposite the sun), hence max error
\* 180 and level poor, whatever the location, scale and geometry.
C25_RamaAlwaysOpposite ==
    (/\ ValidationReturned("rama")
     /\ validation.truth.azimuth >= 0
     /\ validation.truth.azimuth < Deg(360)) =>
        /\ validation.pred.azimuth_reading = validation.pred.shadow_azimuth
        /\ validation.value.altitude_error = 0
        /\ validation.value.azimuth_error = Deg(180)
        /\ validation.routine = "validate_yantra_accuracy" =>
               /\ validation.value.max_error = Deg(180)
               /\ validation.value.accuracy_level = "poor"

\* a Rama validation of scale 0.2 for the sun at azimuth 359, whose shadow
\* azimuth 179 is on the other side of north
C25_Witness ==
    /\ ValidationReturned("rama")
    /\ validation.routine = "validate_yantra_accuracy"
    /\ generator.scale = LenScale \div 5
    /\ validation.truth.azimuth = Deg(359)
    /\ validation.pred.azimuth_reading = Deg(179)
    /\ validation.value.accuracy_level = "poor"

\* C26: for a generator of either concrete type and a true sun position with
\* azimuth in [0, 360), compare_shadow and validate_yantra_accuracy return
\* the same predicted altitude, predicted azimuth, altitude error, azimuth
\* error and rms error.
C26_ValidatorsAgree ==
    (/\ generator.kind \in ConcreteKinds
     /\ validation.routine # "none"
     /\ validation.outcome = "ok"
     /\ validation.truth.azimuth >= 0
     /\ validation.truth.azimuth < Deg(360)) =>
        LET service == CompareShadowResult(validation.pred, validation.truth)
            endpoint == ValidateAccuracyResult(validation.pred, validation.truth)
            own == validation.value
        IN  \A f \in {"predicted_altitude", "predicted_azimuth", "altitude_error",
                       "azimuth_error", "rms_error"} :
                service[f] = endpoint[f] /\ own[f] = service[f]

\* compare_shadow on a Rama yantra for the sun at azimuth 2.00: the wrapped
\* and the plain difference are both 180
C26_Witness ==
    /\ ValidationReturned("rama")
    /\ validation.routine = "compare_shadow"
    /\ validation.truth.azimuth = 200
    /\ validation.value.azimuth_error = Deg(180)
    /\ validation.value.rms_error = Deg(180)

\* C27: every Rama geometry generated from inputs in the interface ranges
\* has a positive inner floor radius pillar_radius - wall_thickness that is
\* at least the central platform radius, so that every azimuth marking runs
\* outward and the clamped shadow length of a prediction is non-negative.
C27_RamaFloorRadius ==
    /\ (generator.kind = "rama" /\ ValidGenerateCall) =>
          /\ MaxFloorRadius(generator.geometry) > 0
          /\ MaxFloorRadius(generator.geometry)
               >= generator.geometry.central_platform_radius
    /\ (/\ generator.kind = "rama"
        /\ generator.scale > LenScale \div 10
        /\ last.outcome = "ok") =>
          /\ last.op = "get_azimuth_markings" =>
                \A i \in 1..360 :
                    last.value[i].start_radius <= last.value[i].end_radius
          /\ last.op = "get_shadow_prediction" => last.value.shadow_length >= 0

----------------------------------------------------------------------------
(* The endpoints *)

\* the footprint of the instrument a request asks for: the quadrant radius
\* of the dial, the pillar diameter of the Rama yantra
Footprint(request) ==
    LET geo == GenerateGeometry(
                   NewGenerator(request.yantra_type, Round6(request.latitude),
                                Round6(request.longitude), request.scale),
                   request.material_thickness, request.kerf_compensation,
                   request.include_base)
    IN  IF request.yantra_type = "samrat" THEN geo.quadrant_radius
        ELSE 2 * geo.pillar_radius

\* C28: in the response to every successful generate request of either type,
\* with or without base, overall length, width and height are strictly
\* positive, and length and width are at least the instrument's footprint.
C28_OverallDimensions ==
    (http.endpoint = "generate" /\ http.status = 200) =>
        LET d == http.body.dimensions
        IN  /\ d.overall_length > 0
            /\ d.overall_width > 0
            /\ d.overall_height > 0
            /\ d.overall_length >= Footprint(http.request)
            /\ d.overall_width >= Footprint(http.request)

\* C29: a generate request for a declared yantra type other than samrat and
\* rama is answered 400; no generator is constructed, the oracle is not
\* called and no Project is persisted.
C29_UnimplementedTypeIs400 ==
    (/\ http.endpoint = "generate"
     /\ http.status # 422
     /\ http.request.yantra_type \in YantraTypes \ ConcreteKinds) =>
        /\ http.status = 400
        /\ \A i \in DOMAIN http.events :
              http.events[i] \notin {"construct", "oracle", "commit"}
        /\ db.projects = <<>>

ScheduleEvents == {"schedule_dxf", "schedule_stl", "schedule_gltf", "schedule_pdf"}

IsScheduleEvent(e) == e \in ScheduleEvents

====
